---- MODULE Spec2Model ----
(***************************************************************************)
(* Ledger core of dlapp_crm: the inventory stock ledger                    *)
(* (core/signals.py, core/models.py StockTransaction, the stock views) and *)
(* the billing / balance ledger (Bill, BillItem, Payment, the bill views). *)
(* Money is counted in the smallest unit of the 2-decimal fields, so every *)
(* Decimal sum and product of the source is an exact integer operation.    *)
(***************************************************************************)
EXTENDS Integers, FiniteSets, Sequences, Bags, TLC

VARIABLES
  current_quantity,     \* MedicineStock.current_quantity per medicine
  stock_transactions,   \* StockTransaction rows by primary key
  stock_op,             \* outcome of the stock request that just completed
  stock_hist,           \* the stock request that just completed: what it wrote
  initial_quantity,     \* concurrent scenario: current_quantity when the requests start
  requests,             \* concurrent scenario: each request's position and locals
  row_lock,             \* concurrent scenario: the requests holding each MedicineStock row lock
  balance,              \* Patient.balance per patient
  bills,                \* Bill rows by primary key
  bill_items,           \* BillItem rows by primary key
  payments,             \* Payment rows by primary key
  bill_op,              \* the billing operation that just completed
  nops,                 \* number of billing operations completed
  converted_patient,    \* Lead.converted_patient per lead (NoPk while open)
  conversion_date,      \* Lead.conversion_date per lead (NoDate while open)
  patient_rows,         \* number of Patient rows created by lead conversion
  today,                \* timezone.now(), in days
  lead_op,              \* the lead request that just completed
  ledger_requests,      \* concurrent billing scenario: each request's position and locals
  initial_ledger        \* concurrent billing scenario: the rows when the requests start

stockVars == <<current_quantity, stock_transactions, stock_op, stock_hist>>
concVars == <<initial_quantity, requests, row_lock>>
billVars == <<balance, bills, bill_items, payments, bill_op, nops>>
leadVars == <<converted_patient, conversion_date, patient_rows, today, lead_op>>
vars == <<current_quantity, stock_transactions, stock_op, stock_hist, initial_quantity,
          requests, row_lock, balance, bills, bill_items, payments, bill_op, nops,
          converted_patient, conversion_date, patient_rows, today, lead_op,
          ledger_requests, initial_ledger>>
ledgerConcVars == <<ledger_requests, initial_ledger>>

\* what a family of requests leaves alone
nonStockVars == <<concVars, billVars, leadVars, ledgerConcVars>>
nonBillVars == <<stockVars, concVars, leadVars, ledgerConcVars>>
nonLeadVars == <<stockVars, concVars, billVars, ledgerConcVars>>

----------------------------------------------------------------------------
(* Bounds *)

MaxTx == 2
MaxQty == 2
MaxStock == 2
MaxReq == 2
MaxBills == 1
MaxItems == 2
MaxPayments == 2
MaxOps == 3
MaxRows == 1
MaxLeads == 2
MaxDay == 3

Medicines == {"m1", "m2"}
Patients == {"p1", "p2"}
None == "none"
NoPk == 0     \* a null foreign key, or the pk of an instance not yet saved

Quantities == (0 - MaxQty) .. MaxQty
\* quantities entered with a type that fixes the sign: the magnitudes, and one
\* negative entry for the normalization to flip
TypedQuantities == (0 - 1) .. MaxQty
Reqs == 1 .. MaxReq
BillIds == 1 .. MaxBills
ItemIds == 1 .. MaxItems
PaymentIds == 1 .. MaxPayments
Leads == 1 .. MaxLeads
Days == 1 .. MaxDay
NoDate == 0     \* a null DateField

\* values the forms are filled with (money in the smallest unit)
UnitPrices == {1, 2}
ItemQuantities == {2}
TaxAmounts == {0, 1}
DiscountAmounts == {0, 3}
PaidAmounts == {0, 1}
PaymentAmounts == {0, 1, 2}

Abs(n) == IF n < 0 THEN 0 - n ELSE n

----------------------------------------------------------------------------
(* StockTransaction: types and sign normalization *)

TRANSACTION_TYPE_CHOICES == {"purchase", "sale", "adjustment", "expired", "damaged", "return"}
IN_TYPES == {"purchase", "return"}
OUT_TYPES == {"sale", "expired", "damaged"}

\* StockTransactionForm offers every type except sale and adjustment
StockTransactionFormTypes == TRANSACTION_TYPE_CHOICES \ {"sale", "adjustment"}

\* the types the requests are drawn from: one inbound and one outbound type the
\* form offers, and for the admin the signed type the form withholds
FormTypeInputs == StockTransactionFormTypes \cap {"purchase", "expired"}
AdminTypeInputs == TRANSACTION_TYPE_CHOICES \cap {"adjustment"}
QuantityInputs(t) == IF t = "adjustment" THEN Quantities ELSE TypedQuantities

normalize_quantity_sign_skipped(transaction_type, quantity) == quantity

normalize_quantity_sign(transaction_type, quantity) ==
  IF transaction_type \in IN_TYPES THEN Abs(quantity)
  ELSE IF transaction_type \in OUT_TYPES THEN 0 - Abs(quantity)
  ELSE quantity

NoTx == [medicine |-> None, transaction_type |-> None, quantity |-> 0]

TxRow(m, t, q) == [medicine |-> m, transaction_type |-> t, quantity |-> q]

\* The stock_transactions table.  Its primary keys are random UUIDs that carry
\* no information, so the table is kept as the bag of its rows' contents.
NoRows == EmptyBag
InsertRow(rows, row) == rows (+) SetToBag({row})
DeleteRow(rows, row) == rows (-) SetToBag({row})
RowCount(rows) == BagCardinality(rows)

----------------------------------------------------------------------------
(* Stock ledger: signals.py *)

apply_stock_delta_unchecked(stock, medicine, delta) ==
  [ok |-> TRUE, stock |-> [stock EXCEPT ![medicine] = stock[medicine] + delta]]

\* _apply_stock_delta: lock the row, read, refuse a negative result, write
apply_stock_delta(stock, medicine, delta) ==
  LET new_qty == stock[medicine] + delta
  IN IF new_qty < 0
       THEN [ok |-> FALSE, stock |-> stock]
       ELSE [ok |-> TRUE, stock |-> [stock EXCEPT ![medicine] = new_qty]]

\* remember_old_fields: the persisted quantity and medicine of the row being
\* saved (old = NoTx for an instance without a row)
remember_old_fields(old) ==
  IF old # NoTx
    THEN [old_quantity |-> old.quantity, old_medicine_id |-> old.medicine]
    ELSE [old_quantity |-> 0, old_medicine_id |-> None]

apply_stock_on_save_same_medicine(stock, old, new_med, new_qty) ==
  LET delta == new_qty - old.old_quantity
  IN IF delta # 0 THEN apply_stock_delta(stock, new_med, delta)
                  ELSE [ok |-> TRUE, stock |-> stock]

\* apply_stock_on_save: the post_save handler; ok = FALSE when a delta raised
apply_stock_on_save(stock, old, new_med, new_qty) ==
  IF old.old_medicine_id # None /\ old.old_medicine_id # new_med
    THEN LET r1 == apply_stock_delta(stock, old.old_medicine_id, 0 - old.old_quantity)
         IN IF ~r1.ok THEN r1 ELSE apply_stock_delta(r1.stock, new_med, new_qty)
    ELSE LET delta == new_qty - old.old_quantity
         IN IF delta # 0 THEN apply_stock_delta(stock, new_med, delta)
                         ELSE [ok |-> TRUE, stock |-> stock]

revert_stock_on_delete_reapplied(stock, row) ==
  IF row.quantity # 0 THEN apply_stock_delta(stock, row.medicine, row.quantity)
                      ELSE [ok |-> TRUE, stock |-> stock]

\* revert_stock_on_delete: the post_delete handler
revert_stock_on_delete(stock, row) ==
  IF row.quantity # 0 THEN apply_stock_delta(stock, row.medicine, 0 - row.quantity)
                      ELSE [ok |-> TRUE, stock |-> stock]

\* StockTransaction.save: normalize, pre_save, write the row, post_save.
\* The row write is committed before post_save runs unless the caller holds
\* a transaction; the result carries both the rows and the stock.
StockTransaction_save(rows, stock, old, m, t, q) ==
  LET qn == normalize_quantity_sign(t, q)
      mem == remember_old_fields(old)
      rows2 == InsertRow(IF old = NoTx THEN rows ELSE DeleteRow(rows, old), TxRow(m, t, qn))
      r == apply_stock_on_save(stock, mem, m, qn)
  IN [ok |-> r.ok, rows |-> rows2, stock |-> r.stock]

StockBounded(stock) == \A m \in Medicines : stock[m] <= MaxStock

StockOp(outcome) == [outcome |-> outcome]

\* What the request that just completed did to the ledger: the row it created
\* or deleted, current_quantity of the row's medicine before a create, and
\* whether a delete removes the row the request before it created.
StockHist(op, row, pre, follows) == [op |-> op, row |-> row, pre |-> pre, follows |-> follows]
NoHist == StockHist("none", NoTx, 0, FALSE)

\* views.stock_tx_create: form.save(commit=False); obj.save() with no transaction
stock_tx_create(m, t, q) ==
  /\ RowCount(stock_transactions) < MaxTx
  /\ LET r == StockTransaction_save(stock_transactions, current_quantity, NoTx, m, t, q)
     IN /\ StockBounded(r.stock)
        /\ stock_transactions' = r.rows
        /\ current_quantity' = r.stock
        /\ stock_op' = StockOp(IF r.ok THEN "ok" ELSE "rejected")
  /\ UNCHANGED nonStockVars

\* views.pharmacy_tx_edit: @transaction.atomic, sale and adjustment rows are not editable
pharmacy_tx_edit(tx, m, t, q) ==
  /\ BagIn(tx, stock_transactions)
  /\ tx.transaction_type \notin {"sale", "adjustment"}
  /\ LET r == StockTransaction_save(stock_transactions, current_quantity, tx, m, t, q)
     IN /\ StockBounded(r.stock)
        /\ stock_transactions' = IF r.ok THEN r.rows ELSE stock_transactions
        /\ current_quantity' = IF r.ok THEN r.stock ELSE current_quantity
        /\ stock_op' = StockOp(IF r.ok THEN "ok" ELSE "rejected")
  /\ UNCHANGED nonStockVars

\* views.pharmacy_stock_adjust: @transaction.atomic, one adjustment row of (target - read)
pharmacy_stock_adjust(m, target) ==
  /\ RowCount(stock_transactions) < MaxTx
  /\ LET old_qty == current_quantity[m]
         delta == target - old_qty
         r == StockTransaction_save(stock_transactions, current_quantity, NoTx,
                                    m, "adjustment", delta)
     IN /\ delta # 0
        /\ StockBounded(r.stock)
        /\ stock_transactions' = IF r.ok THEN r.rows ELSE stock_transactions
        /\ current_quantity' = IF r.ok THEN r.stock ELSE current_quantity
        /\ stock_op' = StockOp(IF r.ok THEN "ok" ELSE "rejected")
  /\ UNCHANGED nonStockVars

\* StockTransactionAdmin add view: every type, inside the admin's transaction
admin_tx_add(m, t, q) ==
  /\ RowCount(stock_transactions) < MaxTx
  /\ LET r == StockTransaction_save(stock_transactions, current_quantity, NoTx, m, t, q)
     IN /\ StockBounded(r.stock)
        /\ stock_transactions' = IF r.ok THEN r.rows ELSE stock_transactions
        /\ current_quantity' = IF r.ok THEN r.stock ELSE current_quantity
        /\ stock_op' = StockOp(IF r.ok THEN "ok" ELSE "rejected")
  /\ UNCHANGED nonStockVars

\* StockTransactionAdmin change view
admin_tx_change(tx, m, t, q) ==
  /\ BagIn(tx, stock_transactions)
  /\ LET r == StockTransaction_save(stock_transactions, current_quantity, tx, m, t, q)
     IN /\ StockBounded(r.stock)
        /\ stock_transactions' = IF r.ok THEN r.rows ELSE stock_transactions
        /\ current_quantity' = IF r.ok THEN r.stock ELSE current_quantity
        /\ stock_op' = StockOp(IF r.ok THEN "ok" ELSE "rejected")
  /\ UNCHANGED nonStockVars

\* StockTransactionAdmin delete view: Model.delete() runs post_delete inside its transaction
admin_tx_delete(tx) ==
  /\ BagIn(tx, stock_transactions)
  /\ LET r == revert_stock_on_delete(current_quantity, tx)
     IN /\ StockBounded(r.stock)
        /\ stock_transactions' = IF r.ok THEN DeleteRow(stock_transactions, tx)
                                         ELSE stock_transactions
        /\ current_quantity' = IF r.ok THEN r.stock ELSE current_quantity
        /\ stock_op' = StockOp(IF r.ok THEN "ok" ELSE "rejected")
  /\ UNCHANGED nonStockVars

----------------------------------------------------------------------------
(* Billing rows.  db is the database as one value:                          *)
(* [balance, bills, bill_items, payments]; an operator that models a method *)
(* takes the database and the in-memory instance and returns both.          *)

NoBill == [patient |-> None, tax_amount |-> 0, discount_amount |-> 0,
           total_amount |-> 0, paid_amount |-> 0]
NoItem == [bill |-> NoPk, unit_price |-> 0, quantity |-> 0, total_price |-> 0]
NoPayment == [patient |-> None, bill |-> NoPk, amount |-> 0]

Db == [balance |-> balance, bills |-> bills, bill_items |-> bill_items, payments |-> payments]

ExistingBills(db) == {b \in BillIds : db.bills[b] # NoBill}
ExistingItems(db) == {i \in ItemIds : db.bill_items[i] # NoItem}
ExistingPayments(db) == {k \in PaymentIds : db.payments[k] # NoPayment}

Least(S) == CHOOSE x \in S : \A y \in S : x <= y
NewBillId(db) == Least(BillIds \ ExistingBills(db))
NewItemId(db) == Least(ItemIds \ ExistingItems(db))
NewPaymentId(db) == Least(PaymentIds \ ExistingPayments(db))

RECURSIVE SumTotalPrice(_, _)
SumTotalPrice(items, S) ==
  IF S = {} THEN 0
  ELSE LET i == CHOOSE x \in S : TRUE
       IN items[i].total_price + SumTotalPrice(items, S \ {i})

\* bill.items.aggregate(s=Sum('total_price'))['s'] or 0
ItemsSubtotal(db, b) ==
  SumTotalPrice(db.bill_items, {i \in ItemIds : db.bill_items[i] # NoItem /\ db.bill_items[i].bill = b})

RECURSIVE SumAmount(_, _)
SumAmount(pays, S) ==
  IF S = {} THEN 0
  ELSE LET k == CHOOSE x \in S : TRUE
       IN pays[k].amount + SumAmount(pays, S \ {k})

BillPayments(db, b) == {k \in PaymentIds : db.payments[k] # NoPayment /\ db.payments[k].bill = b}

\* UPDATE patients SET balance = balance + delta WHERE pk = patient
AddToBalance(db, patient, delta) ==
  [db EXCEPT !.balance[patient] = @ + delta]

----------------------------------------------------------------------------
(* Bill *)

\* Bill.save() without update_fields and without update_patient_balance:
\* every column of the row is written from the instance
Bill_save(db, b, bill) == [db EXCEPT !.bills[b] = bill]

\* the same save with update_patient_balance=True
Bill_save_total_amount_update_patient_balance(db, b, bill) ==
  LET balance_delta == bill.total_amount - db.bills[b].total_amount
      db2 == [db EXCEPT !.bills[b].total_amount = bill.total_amount]
  IN IF bill.patient # None /\ balance_delta # 0
       THEN AddToBalance(db2, bill.patient, balance_delta)
       ELSE db2

\* Bill.save(update_fields=['total_amount', ...])
Bill_save_total_amount(db, b, bill) ==
  [db EXCEPT !.bills[b].total_amount = bill.total_amount]

\* Bill.save(update_fields=['paid_amount'])
Bill_save_paid_amount(db, b, bill) ==
  [db EXCEPT !.bills[b].paid_amount = bill.paid_amount]

\* Bill.recalculate(save=True): the total becomes the sum of the items
Bill_recalculate(db, b, bill) ==
  LET bill2 == [bill EXCEPT !.total_amount = ItemsSubtotal(db, b)]
  IN [db |-> Bill_save_total_amount(db, b, bill2), bill |-> bill2]

----------------------------------------------------------------------------
(* BillItem.  bill is the Bill instance the item holds in item.bill: the    *)
(* view's instance in the bill views, a fresh load in the admin.            *)

BillItem_save_as_new(db, i, b, unit_price, quantity, bill) ==
  LET total_price == unit_price * quantity
      bill2 == [bill EXCEPT !.total_amount = @ + total_price]
      db2 == Bill_save_total_amount(db, b, bill2)
      row == [bill |-> b, unit_price |-> unit_price, quantity |-> quantity,
              total_price |-> total_price]
  IN [db |-> [db2 EXCEPT !.bill_items[i] = row], bill |-> bill2]

\* BillItem.save
BillItem_save(db, i, b, unit_price, quantity, bill) ==
  LET total_price == unit_price * quantity
      delta == IF db.bill_items[i] = NoItem THEN total_price
               ELSE total_price - db.bill_items[i].total_price
      bill2 == [bill EXCEPT !.total_amount = @ + delta]
      db2 == Bill_save_total_amount(db, b, bill2)
      row == [bill |-> b, unit_price |-> unit_price, quantity |-> quantity,
              total_price |-> total_price]
  IN [db |-> [db2 EXCEPT !.bill_items[i] = row], bill |-> bill2]

BillItem_delete_without_signal(db, i, bill) ==
  LET b == db.bill_items[i].bill
      bill2 == [bill EXCEPT !.total_amount = @ - db.bill_items[i].total_price]
      db2 == Bill_save_total_amount(db, b, bill2)
  IN [db |-> [db2 EXCEPT !.bill_items[i] = NoItem], bill |-> bill2]

\* BillItem.delete followed by the post_delete handler billitem_deleted
BillItem_delete(db, i, bill) ==
  LET b == db.bill_items[i].bill
      bill2 == [bill EXCEPT !.total_amount = @ - db.bill_items[i].total_price]
      db2 == Bill_save_total_amount(db, b, bill2)
      db3 == [db2 EXCEPT !.bill_items[i] = NoItem]
  IN IF b # NoPk THEN Bill_recalculate(db3, b, bill2) ELSE [db |-> db3, bill |-> bill2]

----------------------------------------------------------------------------
(* Payment *)

\* Payment.save
Payment_save(db, k, patient, b, amount) ==
  LET old_amount == IF db.payments[k] = NoPayment THEN 0 ELSE db.payments[k].amount
      delta == amount - old_amount
      db2 == [db EXCEPT !.payments[k] = [patient |-> patient, bill |-> b, amount |-> amount]]
  IN IF patient # None /\ delta # 0 THEN AddToBalance(db2, patient, 0 - delta) ELSE db2

Payment_delete_without_refund(db, k, payment) ==
  [db EXCEPT !.payments[k] = NoPayment]

\* Payment.delete: payment is the in-memory instance
Payment_delete(db, k, payment) ==
  LET db2 == IF payment.patient # None /\ payment.amount # 0
               THEN AddToBalance(db, payment.patient, payment.amount)
               ELSE db
  IN [db2 EXCEPT !.payments[k] = NoPayment]

----------------------------------------------------------------------------
(* views.py: bill orchestration *)

finalize_bill_totals_incremental(db, b, bill) ==
  LET final_total == bill.total_amount + bill.tax_amount - bill.discount_amount
      bill2 == [bill EXCEPT !.total_amount = final_total]
  IN [db |-> Bill_save_total_amount(db, b, bill2), bill |-> bill2]

\* finalize_bill_totals
finalize_bill_totals(db, b, bill) ==
  LET subtotal == ItemsSubtotal(db, b)
      final_total == subtotal + bill.tax_amount - bill.discount_amount
      bill2 == [bill EXCEPT !.total_amount = final_total]
  IN [db |-> Bill_save_total_amount(db, b, bill2), bill |-> bill2]

\* update_patient_balance_for_bill(bill, is_new=True)
update_patient_balance_for_bill(db, bill) ==
  IF bill.patient = None THEN db
  ELSE IF bill.total_amount > 0 THEN AddToBalance(db, bill.patient, bill.total_amount)
  ELSE db

\* The operation that just completed: its name, the row it was about, the
\* aggregate before it where a claim compares against it (the bill's total
\* for an item save; for payment_delete, the amount of the deleted payment;
\* for bill_edit, the submitted paid amount), and whether it directly follows
\* its counterpart on the same row (finalize after finalize, delete after the
\* create; for bill_edit, whether the bill had payments).
BillOp(op, id, pre, follows) == [op |-> op, id |-> id, pre |-> pre, follows |-> follows]

Follows(op, id) == bill_op.op = op /\ bill_op.id = id

\* the request's transaction commits: its writes become the database
Commit(db, op) ==
  /\ nops' = nops + 1
  /\ balance' = db.balance
  /\ bills' = db.bills
  /\ bill_items' = db.bill_items
  /\ payments' = db.payments
  /\ bill_op' = op
  /\ UNCHANGED nonBillVars

ItemRows == [unit_price : UnitPrices, quantity : ItemQuantities]

\* the loop over formset.forms / save_new_objects: every new item is saved
\* with item.bill set to the view's Bill instance
RECURSIVE SaveNewItems(_, _, _, _)
SaveNewItems(db, b, bill, rows) ==
  IF rows = <<>> THEN [db |-> db, bill |-> bill]
  ELSE LET r == BillItem_save(db, NewItemId(db), b, Head(rows).unit_price,
                              Head(rows).quantity, bill)
       IN SaveNewItems(r.db, b, r.bill, Tail(rows))

DeletePayments_skipped(db, S) == db

\* for p in bill.payments.all(): p.delete()
RECURSIVE DeletePayments(_, _)
DeletePayments(db, S) ==
  IF S = {} THEN db
  ELSE LET k == CHOOSE x \in S : TRUE
       IN DeletePayments(Payment_delete(db, k, db.payments[k]), S \ {k})

\* service_bill_create with a valid header and formset (pharmacy_bill_create
\* runs the same statements on a pharmacy formset)
service_bill_create(patient, rows, tax, discount, paid) ==
  LET b == NewBillId(Db)
      bill0 == [patient |-> patient, tax_amount |-> tax, discount_amount |-> discount,
                total_amount |-> 0, paid_amount |-> paid]
      db1 == Bill_save(Db, b, bill0)
      r2 == SaveNewItems(db1, b, bill0, rows)
      r3 == finalize_bill_totals(r2.db, b, r2.bill)
      db4 == update_patient_balance_for_bill(r3.db, r3.bill)
      bill5 == [r3.bill EXCEPT !.paid_amount = paid]
      db5 == Bill_save_paid_amount(db4, b, bill5)
      db6 == IF paid > 0 THEN Payment_save(db5, NewPaymentId(db5), patient, b, paid)
                         ELSE db5
  IN /\ ExistingBills(Db) # BillIds
     /\ rows # <<>>
     /\ Cardinality(ItemIds \ ExistingItems(Db)) >= Len(rows)
     /\ paid > 0 => ExistingPayments(Db) # PaymentIds
     /\ Commit(db6, BillOp("bill_create", b, 0, FALSE))

NoChange == [kind |-> "none", item |-> NoPk, unit_price |-> 0, quantity |-> 0]
DeleteForm(i) == [kind |-> "delete", item |-> i, unit_price |-> 0, quantity |-> 0]
ChangeForm(i, row) ==
  [kind |-> "change", item |-> i, unit_price |-> row.unit_price, quantity |-> row.quantity]

\* formset.save(): save_existing_objects, then save_new_objects.  Validation
\* has set item.bill of every form's item to the formset's instance, the
\* view's Bill, so every item works on that one instance.
formset_save(db, b, bill, existing, rows) ==
  LET r2 == IF existing.kind = "delete"
              THEN BillItem_delete(db, existing.item, bill)
            ELSE IF existing.kind = "change"
              THEN BillItem_save(db, existing.item, b, existing.unit_price,
                                 existing.quantity, bill)
            ELSE [db |-> db, bill |-> bill]
  IN SaveNewItems(r2.db, b, r2.bill, rows)

\* service_bill_edit with a valid header and formset (pharmacy_bill_edit runs
\* the same statements)
service_bill_edit(b, patient, existing, rows, tax, discount, paid) ==
  LET bill0 == bills[b]
      old_total == bill0.total_amount
      bill1 == [bill0 EXCEPT !.patient = patient, !.tax_amount = tax,
                             !.discount_amount = discount, !.paid_amount = paid]
      db1 == Bill_save(Db, b, bill1)
      r3 == formset_save(db1, b, bill1, existing, rows)
      r4 == finalize_bill_totals(r3.db, b, r3.bill)
      total_delta == r4.bill.total_amount - old_total
      db5 == IF total_delta # 0 THEN AddToBalance(r4.db, r4.bill.patient, total_delta)
                                ELSE r4.db
      db6 == DeletePayments(db5, BillPayments(db5, b))
      bill7 == [r4.bill EXCEPT !.paid_amount = paid]
      db7 == Bill_save_paid_amount(db6, b, bill7)
      db8 == IF paid > 0 THEN Payment_save(db7, NewPaymentId(db7), bill7.patient, b, paid)
                         ELSE db7
  IN /\ b \in ExistingBills(Db)
     /\ existing.kind # "none" =>
          existing.item \in ExistingItems(Db) /\ bill_items[existing.item].bill = b
     /\ Cardinality(ItemIds \ ExistingItems(Db)) >= Len(rows)
     /\ paid > 0 => ExistingPayments(db7) # PaymentIds
     /\ Commit(db8, BillOp("bill_edit", b, paid, BillPayments(Db, b) # {}))

\* finalize_bill_totals(bill) on a bill as loaded
finalize(b) ==
  /\ b \in ExistingBills(Db)
  /\ Commit(finalize_bill_totals(Db, b, bills[b]).db,
            BillOp("finalize", b, bills[b].total_amount, Follows("finalize", b)))

\* BillItemAdmin add: BillItem.save on a new item of an existing bill
item_create(b, row) ==
  /\ b \in ExistingBills(Db)
  /\ ExistingItems(Db) # ItemIds
  /\ Commit(BillItem_save(Db, NewItemId(Db), b, row.unit_price, row.quantity, bills[b]).db,
            BillOp("item_create", NewItemId(Db), bills[b].total_amount, FALSE))

\* BillItemAdmin change: BillItem.save on an existing item
item_update(i, row) ==
  /\ i \in ExistingItems(Db)
  /\ Commit(BillItem_save(Db, i, bill_items[i].bill, row.unit_price, row.quantity,
                          bills[bill_items[i].bill]).db,
            BillOp("item_update", i, bills[bill_items[i].bill].total_amount, FALSE))

\* BillItemAdmin delete: BillItem.delete and its post_delete handler
item_delete(i) ==
  /\ i \in ExistingItems(Db)
  /\ Commit(BillItem_delete(Db, i, bills[bill_items[i].bill]).db,
            BillOp("item_delete", i, 0, Follows("item_create", i)))

\* PaymentAdmin add: Payment.save on a new payment, for a bill of the patient or none
payment_create(patient, b, amount) ==
  /\ ExistingPayments(Db) # PaymentIds
  /\ b # NoPk => b \in ExistingBills(Db) /\ bills[b].patient = patient
  /\ Commit(Payment_save(Db, NewPaymentId(Db), patient, b, amount),
            BillOp("payment_create", NewPaymentId(Db), balance[patient], FALSE))

\* PaymentAdmin change: Payment.save with another amount
payment_update(k, amount) ==
  /\ k \in ExistingPayments(Db)
  /\ Commit(Payment_save(Db, k, payments[k].patient, payments[k].bill, amount),
            BillOp("payment_update", k, 0, FALSE))

\* PaymentAdmin delete: Payment.delete on the instance as loaded
payment_delete(k) ==
  /\ k \in ExistingPayments(Db)
  /\ Commit(Payment_delete(Db, k, payments[k]),
            BillOp("payment_delete", k, payments[k].amount, Follows("payment_create", k)))

----------------------------------------------------------------------------
(* Lead conversion: Lead.convert_to_patient and views.lead_convert.  A     *)
(* request works on the lead as it has just loaded it.                      *)

\* the Lead instance a request holds after loading the row
LeadInstance(l) ==
  [converted_patient_id |-> converted_patient[l], conversion_date |-> conversion_date[l]]

AlreadyConvertedIgnored(lead) == FALSE

\* if self.converted_patient_id: / if lead.converted_patient_id:
AlreadyConverted(lead) == lead.converted_patient_id # NoPk

\* Patient.objects.create(...) / patient.save(): the new row's key
NewPatient == patient_rows + 1

LeadOp(op, l, already, returned) ==
  [op |-> op, lead |-> l, already |-> already, returned |-> returned]

\* lead.converted_patient = patient; lead.conversion_date = timezone.now();
\* lead.save(update_fields=['converted_patient', 'conversion_date'])
Converted(l, op) ==
  /\ patient_rows < MaxLeads
  /\ patient_rows' = patient_rows + 1
  /\ converted_patient' = [converted_patient EXCEPT ![l] = NewPatient]
  /\ conversion_date' = [conversion_date EXCEPT ![l] = today]
  /\ lead_op' = LeadOp(op, l, FALSE, NewPatient)

\* Lead.convert_to_patient, as LeadAdmin.convert_selected_leads calls it on a
\* lead of the queryset
convert_to_patient(l) ==
  LET lead == LeadInstance(l)
  IN /\ IF AlreadyConverted(lead)
          THEN /\ lead_op' = LeadOp("convert_to_patient", l, TRUE, lead.converted_patient_id)
               /\ UNCHANGED <<converted_patient, conversion_date, patient_rows>>
          ELSE Converted(l, "convert_to_patient")
     /\ UNCHANGED <<today, nonLeadVars>>

\* views.lead_convert, POST with a valid LeadConvertForm
lead_convert(l) ==
  LET lead == LeadInstance(l)
  IN /\ IF AlreadyConverted(lead)
          THEN /\ lead_op' = LeadOp("lead_convert", l, TRUE, lead.converted_patient_id)
               /\ UNCHANGED <<converted_patient, conversion_date, patient_rows>>
          ELSE Converted(l, "lead_convert")
     /\ UNCHANGED <<today, nonLeadVars>>

\* a day passes
next_day ==
  /\ today < MaxDay
  /\ today' = today + 1
  /\ lead_op' = LeadOp("next_day", NoPk, FALSE, NoPk)
  /\ UNCHANGED <<converted_patient, conversion_date, patient_rows, nonLeadVars>>

----------------------------------------------------------------------------
(* Initial values of the parts a specification does not exercise *)

StockIdle ==
  /\ current_quantity = [m \in Medicines |-> 0]
  /\ stock_transactions = NoRows
  /\ stock_op = StockOp("none")
  /\ stock_hist = NoHist

ConcIdle ==
  /\ initial_quantity = [m \in Medicines |-> 0]
  /\ requests = [r \in Reqs |-> [pc |-> "idle"]]
  /\ row_lock = [m \in Medicines |-> {}]

BillIdle ==
  /\ balance = [p \in Patients |-> 0]
  /\ bills = [b \in BillIds |-> NoBill]
  /\ bill_items = [i \in ItemIds |-> NoItem]
  /\ payments = [k \in PaymentIds |-> NoPayment]
  /\ bill_op = BillOp("none", NoPk, 0, FALSE)
  /\ nops = 0

LedgerConcIdle ==
  /\ ledger_requests = [r \in Reqs |-> [pc |-> "idle"]]
  /\ initial_ledger = [balance |-> [p \in Patients |-> 0], bills |-> [b \in BillIds |-> NoBill]]

LeadIdle ==
  /\ converted_patient = [l \in Leads |-> NoPk]
  /\ conversion_date = [l \in Leads |-> NoDate]
  /\ patient_rows = 0
  /\ today = 1
  /\ lead_op = LeadOp("none", NoPk, FALSE, NoPk)

----------------------------------------------------------------------------
(* SpecStock: the stock ledger, one request at a time.  create_stock_row    *)
(* gives every medicine a stock row of quantity 0.                          *)

InitStock == StockIdle /\ ConcIdle /\ BillIdle /\ LeadIdle /\ LedgerConcIdle

NextStock ==
  /\ UNCHANGED stock_hist
  /\ \/ \E m \in Medicines, t \in FormTypeInputs : \E q \in QuantityInputs(t) :
          stock_tx_create(m, t, q)
     \/ \E tx \in BagToSet(stock_transactions), m \in Medicines, t \in FormTypeInputs :
          \E q \in QuantityInputs(t) : pharmacy_tx_edit(tx, m, t, q)
     \/ \E m \in Medicines, target \in 0 .. MaxQty : pharmacy_stock_adjust(m, target)
     \/ \E m \in Medicines, t \in AdminTypeInputs : \E q \in QuantityInputs(t) :
          admin_tx_add(m, t, q)
     \/ \E tx \in BagToSet(stock_transactions), m \in Medicines, t \in AdminTypeInputs :
          \E q \in QuantityInputs(t) : admin_tx_change(tx, m, t, q)
     \/ \E tx \in BagToSet(stock_transactions) : admin_tx_delete(tx)

SpecStock == InitStock /\ [][NextStock]_vars

----------------------------------------------------------------------------
(* SpecStockHistory: the same requests, remembering what the last one wrote *)

\* a create request ran with these inputs
Created(m, t, q) ==
  stock_hist' = IF stock_op'.outcome = "ok"
                  THEN StockHist("create", TxRow(m, t, normalize_quantity_sign(t, q)),
                                 current_quantity[m], FALSE)
                  ELSE StockHist("rejected", NoTx, 0, FALSE)

\* an edit request ran
Edited == stock_hist' = StockHist("edit", NoTx, 0, FALSE)

\* a delete request ran on row tx
Deleted(tx) ==
  stock_hist' = IF stock_op'.outcome = "ok"
                  THEN StockHist("delete", tx, 0,
                                 stock_hist.op = "create" /\ stock_hist.row = tx)
                  ELSE StockHist("delete_rejected", tx, 0, FALSE)

NextStockHistory ==
  \/ \E m \in Medicines, t \in FormTypeInputs : \E q \in QuantityInputs(t) :
       stock_tx_create(m, t, q) /\ Created(m, t, q)
  \/ \E tx \in BagToSet(stock_transactions), m \in Medicines, t \in FormTypeInputs :
       \E q \in QuantityInputs(t) : pharmacy_tx_edit(tx, m, t, q) /\ Edited
  \/ \E m \in Medicines, target \in 0 .. MaxQty :
       pharmacy_stock_adjust(m, target) /\ Created(m, "adjustment", target - current_quantity[m])
  \/ \E m \in Medicines, t \in AdminTypeInputs : \E q \in QuantityInputs(t) :
       admin_tx_add(m, t, q) /\ Created(m, t, q)
  \/ \E tx \in BagToSet(stock_transactions), m \in Medicines, t \in AdminTypeInputs :
       \E q \in QuantityInputs(t) : admin_tx_change(tx, m, t, q) /\ Edited
  \/ \E tx \in BagToSet(stock_transactions) : admin_tx_delete(tx) /\ Deleted(tx)

SpecStockHistory == InitStock /\ [][NextStockHistory]_vars

----------------------------------------------------------------------------
(* SpecStockConcurrent: requests that run _apply_stock_delta at the same    *)
(* time, each with an outbound delta for a medicine whose stock row holds   *)
(* any quantity a sequence of purchases can leave.  A request is at         *)
(* "start" before its SELECT ... FOR UPDATE, "locked" while it holds the    *)
(* row, and "done" once its transaction has committed or rolled back.       *)

OutboundDeltas == (0 - MaxQty) .. (0 - 1)

Request(m, d) ==
  [pc |-> "start", medicine |-> m, delta |-> d, current_quantity |-> 0, outcome |-> "none"]

RowLockIgnored(m) == TRUE

\* select_for_update(): the row can be read once no other transaction holds it
RowLockFree(m) == row_lock[m] = {}

\* transaction.atomic(); MedicineStock.objects.select_for_update().get_or_create(...)
select_for_update(r) ==
  LET m == requests[r].medicine
  IN /\ requests[r].pc = "start"
     /\ RowLockFree(m)
     /\ row_lock' = [row_lock EXCEPT ![m] = {r}]
     /\ requests' = [requests EXCEPT ![r].pc = "locked",
                                     ![r].current_quantity = current_quantity[m]]
     /\ UNCHANGED <<current_quantity, initial_quantity, stock_transactions, stock_op, stock_hist, billVars, leadVars, ledgerConcVars>>

\* new_qty = stock.current_quantity + delta; raise if negative, else
\* stock.save(update_fields=['current_quantity']); leaving the atomic block
\* commits or rolls back and releases the row
save_or_raise(r) ==
  LET m == requests[r].medicine
      new_qty == requests[r].current_quantity + requests[r].delta
  IN /\ requests[r].pc = "locked"
     /\ IF new_qty < 0
          THEN /\ requests' = [requests EXCEPT ![r].pc = "done", ![r].outcome = "rejected"]
               /\ UNCHANGED current_quantity
          ELSE /\ requests' = [requests EXCEPT ![r].pc = "done", ![r].outcome = "ok"]
               /\ current_quantity' = [current_quantity EXCEPT ![m] = new_qty]
     /\ row_lock' = [row_lock EXCEPT ![m] = {}]
     /\ UNCHANGED <<initial_quantity, stock_transactions, stock_op, stock_hist, billVars, leadVars, ledgerConcVars>>

InitStockConcurrent ==
  /\ initial_quantity \in [Medicines -> 0 .. MaxStock]
  /\ current_quantity = initial_quantity
  /\ requests \in [Reqs -> {Request(m, d) : m \in Medicines, d \in OutboundDeltas}]
  /\ row_lock = [m \in Medicines |-> {}]
  /\ stock_transactions = NoRows
  /\ stock_op = StockOp("none")
  /\ stock_hist = NoHist
  /\ BillIdle
  /\ LeadIdle
  /\ LedgerConcIdle

NextStockConcurrent ==
  \/ \E r \in Reqs : select_for_update(r)
  \/ \E r \in Reqs : save_or_raise(r)

SpecStockConcurrent == InitStockConcurrent /\ [][NextStockConcurrent]_vars

----------------------------------------------------------------------------
(* SpecBilling: the billing and balance ledger, one request at a time *)

InitBilling == StockIdle /\ ConcIdle /\ BillIdle /\ LeadIdle /\ LedgerConcIdle

RowSeqs == UNION {[1 .. n -> ItemRows] : n \in 1 .. MaxRows}

\* what one edit request does to the items: nothing, one existing item
\* deleted or changed, or one item added
FormsetInputs ==
  {<<NoChange, <<>>>>}
    \cup {<<DeleteForm(i), <<>>>> : i \in ItemIds}
    \cup {<<ChangeForm(i, row), <<>>>> : i \in ItemIds, row \in ItemRows}
    \cup {<<NoChange, <<row>>>> : row \in ItemRows}

NextBilling ==
  /\ nops < MaxOps
  /\ \/ \E p \in Patients, rows \in RowSeqs, tax \in TaxAmounts, discount \in DiscountAmounts,
           paid \in PaidAmounts : service_bill_create(p, rows, tax, discount, paid)
     \/ \E b \in BillIds, p \in Patients, fs \in FormsetInputs, tax \in TaxAmounts,
           discount \in DiscountAmounts, paid \in PaidAmounts :
          service_bill_edit(b, p, fs[1], fs[2], tax, discount, paid)
     \/ \E b \in BillIds : finalize(b)
     \/ \E b \in BillIds, row \in ItemRows : item_create(b, row)
     \/ \E i \in ItemIds, row \in ItemRows : item_update(i, row)
     \/ \E i \in ItemIds : item_delete(i)
     \/ \E p \in Patients, b \in BillIds \cup {NoPk}, amount \in PaymentAmounts :
          payment_create(p, b, amount)
     \/ \E k \in PaymentIds, amount \in PaymentAmounts : payment_update(k, amount)
     \/ \E k \in PaymentIds : payment_delete(k)

SpecBilling == InitBilling /\ [][NextBilling]_vars

----------------------------------------------------------------------------
(* Stock ledger claims *)

RECURSIVE SumQuantity(_, _)
SumQuantity(rows, S) ==
  IF S = {} THEN 0
  ELSE LET r == CHOOSE x \in S : TRUE
       IN CopiesIn(r, rows) * r.quantity + SumQuantity(rows, S \ {r})

\* sum of the stored quantity of the rows that reference the medicine
LedgerQuantity(m) ==
  SumQuantity(stock_transactions, {r \in BagToSet(stock_transactions) : r.medicine = m})

\* C2: every medicine's current_quantity equals the sum of the stored quantities
\* of the StockTransaction rows that reference it, after any sequence of
\* creates, updates and deletes, accepted or rejected.
C2_StockReconciled == \A m \in Medicines : current_quantity[m] = LedgerQuantity(m)

\* C3: current_quantity is never negative, and a request whose delta would make
\* it negative is rejected and leaves every current_quantity as it was (it is
\* not clamped to zero).
C3_NonNegativeStock ==
  /\ [](\A m \in Medicines : current_quantity[m] >= 0)
  /\ [][stock_op'.outcome = "rejected" => current_quantity' = current_quantity]_vars

\* a request was rejected while every medicine had stock, where a clamp would show
C3_Witness ==
  /\ stock_op.outcome = "rejected"
  /\ \A m \in Medicines : current_quantity[m] > 0

\* C4: a rejected create, update or delete leaves the stock rows and the
\* transaction rows exactly as they were, for every entry point.
C4_RejectedIsAtomic ==
  [][stock_op'.outcome = "rejected" =>
       /\ current_quantity' = current_quantity
       /\ stock_transactions' = stock_transactions]_vars

RECURSIVE SumDeltas(_)
SumDeltas(R) ==
  IF R = {} THEN 0
  ELSE LET r == CHOOSE x \in R : TRUE
       IN requests[r].delta + SumDeltas(R \ {r})

Succeeded(m) == {r \in Reqs : requests[r].medicine = m /\ requests[r].outcome = "ok"}
AllDone == \A r \in Reqs : requests[r].pc = "done"

\* C5: concurrent outbound deltas on one medicine are serialized by the row
\* lock: the stock never goes negative, and once the requests are done the
\* quantity is the initial quantity plus exactly the deltas that succeeded, so
\* when the deltas together exceed the stock at least one request was rejected.
C5_NoOverselling ==
  /\ \A m \in Medicines : current_quantity[m] >= 0
  /\ AllDone =>
       \A m \in Medicines :
         /\ current_quantity[m] = initial_quantity[m] + SumDeltas(Succeeded(m))
         /\ LET R == {r \in Reqs : requests[r].medicine = m}
            IN initial_quantity[m] + SumDeltas(R) < 0 =>
                 \E r \in R : requests[r].outcome = "rejected"

\* two requests on one medicine, each of which the stock could serve alone but
\* not both: one succeeded and one was rejected
C5_Witness ==
  /\ AllDone
  /\ \E m \in Medicines :
       LET R == {r \in Reqs : requests[r].medicine = m}
       IN /\ Cardinality(R) >= 2
          /\ \A r \in R : initial_quantity[m] + requests[r].delta >= 0
          /\ initial_quantity[m] + SumDeltas(R) < 0
          /\ Succeeded(m) # {}
          /\ \E r \in R : requests[r].outcome = "rejected"

----------------------------------------------------------------------------
(* Billing ledger claims *)

BillsOf(p) == {b \in BillIds : bills[b] # NoBill /\ bills[b].patient = p}
PaymentsOf(p) == {k \in PaymentIds : payments[k] # NoPayment /\ payments[k].patient = p}

RECURSIVE SumTotalAmount(_)
SumTotalAmount(S) ==
  IF S = {} THEN 0
  ELSE LET b == CHOOSE x \in S : TRUE
       IN bills[b].total_amount + SumTotalAmount(S \ {b})

Step(op) == nops' = nops + 1 /\ bill_op'.op = op

\* C1: with no request in flight, every patient's balance equals the sum of
\* total_amount over the patient's bills minus the sum of amount over the
\* patient's payments.
C1_BalanceReconciled ==
  \A p \in Patients :
    balance[p] = SumTotalAmount(BillsOf(p)) - SumAmount(payments, PaymentsOf(p))

\* C6: a successful bill creation leaves total_amount = sum of the item totals
\* + tax - discount, and the patient's balance = balance before + total_amount
\* - paid, also for a total that is zero or negative.
C6_BillCreateAppliesTotalOnce ==
  [][Step("bill_create") =>
       LET b == bill_op'.id
           p == bills'[b].patient
       IN /\ bills'[b].total_amount =
               ItemsSubtotal([bill_items |-> bill_items'], b)
                 + bills'[b].tax_amount - bills'[b].discount_amount
          /\ balance'[p] = balance[p] + bills'[b].total_amount - bills'[b].paid_amount]_vars

\* C7: after finalize_bill_totals, alone or as a step of bill creation or
\* edit, the persisted total_amount is the sum of the bill's persisted item
\* totals plus tax_amount minus discount_amount, whatever it was before.
C7_FinalizeRecomputes ==
  bill_op.op \in {"finalize", "bill_create", "bill_edit"} =>
    bills[bill_op.id].total_amount =
      ItemsSubtotal(Db, bill_op.id)
        + bills[bill_op.id].tax_amount - bills[bill_op.id].discount_amount

\* finalize changed a total that had drifted from the items, tax and discount
C7_Witness ==
  /\ bill_op.op = "finalize"
  /\ bill_op.pre # bills[bill_op.id].total_amount

\* C8: a second finalize_bill_totals directly after a first on the same bill
\* leaves total_amount as the first left it.
C8_FinalizeIdempotent ==
  [][(Step("finalize") /\ Follows("finalize", bill_op'.id)) =>
       bills'[bill_op'.id].total_amount = bills[bill_op'.id].total_amount]_vars

\* finalize ran twice in a row on a bill whose tax and discount do not cancel
C8_Witness ==
  /\ bill_op.op = "finalize"
  /\ bill_op.follows
  /\ bills[bill_op.id].tax_amount # bills[bill_op.id].discount_amount

\* C9: creating a BillItem and deleting it at once leaves the bill's
\* total_amount at its value before the create, on any bill.
C9_ItemCreateDeleteSymmetric ==
  [][(Step("item_delete") /\ Follows("item_create", bill_op'.id)) =>
       bills'[bill_items[bill_op'.id].bill].total_amount = bill_op.pre]_vars

\* C10: creating a Payment and deleting it at once leaves the patient's
\* balance at its value before the create.
C10_PaymentCreateDeleteSymmetric ==
  [][(Step("payment_delete") /\ Follows("payment_create", bill_op'.id)) =>
       balance'[payments[bill_op'.id].patient] = bill_op.pre]_vars

\* a payment of a non-zero amount (the delete records the amount it removed)
\* was created and deleted at once: the balance moved and came back
C10_Witness ==
  /\ bill_op.op = "payment_delete"
  /\ bill_op.follows
  /\ bill_op.pre # 0

----------------------------------------------------------------------------
(* Stock ledger: delta symmetry *)

\* C11: a StockTransaction whose create succeeded and that is deleted at once:
\* the delete succeeds and current_quantity of its medicine is what it was
\* before the create.
C11_StockCreateDeleteSymmetric ==
  [][(stock_hist.op = "create" /\ stock_hist'.op \in {"delete", "delete_rejected"}
        /\ stock_hist'.row = stock_hist.row)
       => /\ stock_hist'.op = "delete"
          /\ current_quantity'[stock_hist.row.medicine] = stock_hist.pre]_vars

\* a row with a non-zero quantity was created and deleted at once
C11_Witness ==
  /\ stock_hist.op = "delete"
  /\ stock_hist.follows
  /\ stock_hist.row.quantity # 0

----------------------------------------------------------------------------
(* SpecLead: the leads and the convert requests, one at a time *)

InitLead == StockIdle /\ ConcIdle /\ BillIdle /\ LeadIdle /\ LedgerConcIdle

NextLead ==
  \/ \E l \in Leads : convert_to_patient(l)
  \/ \E l \in Leads : lead_convert(l)
  \/ next_day

SpecLead == InitLead /\ [][NextLead]_vars

\* C12: a convert on a lead that is already converted to Patient X returns X,
\* creates no Patient row and leaves converted_patient and conversion_date of
\* the lead as they are.
C12_ConvertIdempotent ==
  [][\A l \in Leads :
       (converted_patient[l] # NoPk
          /\ lead_op'.op \in {"convert_to_patient", "lead_convert"} /\ lead_op'.lead = l)
       => /\ lead_op'.returned = converted_patient[l]
          /\ patient_rows' = patient_rows
          /\ converted_patient'[l] = converted_patient[l]
          /\ conversion_date'[l] = conversion_date[l]]_vars

\* a convert ran on a converted lead on a later day than its conversion
C12_Witness ==
  /\ lead_op.op \in {"convert_to_patient", "lead_convert"}
  /\ lead_op.already
  /\ conversion_date[lead_op.lead] < today
  /\ patient_rows < MaxLeads

----------------------------------------------------------------------------
(* SpecBalanceConcurrent: requests that change one Patient.balance at the   *)
(* same time.  Each request has loaded its patient before any of them       *)
(* wrote.  A "payment" request runs Payment.save on a new payment; a        *)
(* "bill_new" request is at update_patient_balance_for_bill(bill,           *)
(* is_new=True) with the finalized total; a "bill_edit" request is at the   *)
(* total_delta step of service_bill_edit.                                   *)

BalanceRequest(kind, p, amount) ==
  [pc |-> "start", kind |-> kind, patient |-> p, amount |-> amount,
   loaded_balance |-> balance[p]]

NewTotals == {0, 1, 2}
TotalDeltas == {0 - 1, 0, 1}
NewPaymentAmounts == {1, 2}

BalanceRequests ==
  {BalanceRequest("payment", p, a) : p \in Patients, a \in NewPaymentAmounts}
    \cup {BalanceRequest("bill_new", p, a) : p \in Patients, a \in NewTotals}
    \cup {BalanceRequest("bill_edit", p, a) : p \in Patients, a \in TotalDeltas}

F_balance_as_loaded(r) == ledger_requests[r].loaded_balance

\* F('balance'): the column as the UPDATE statement finds it
F_balance(r) == balance[ledger_requests[r].patient]

\* objects.filter(pk=patient_id).update(balance=F('balance') + delta)
update_balance(r, delta) ==
  balance' = [balance EXCEPT ![ledger_requests[r].patient] = F_balance(r) + delta]

\* Payment.save, up to super().save(): the payment row is inserted
payment_insert(r) ==
  LET req == ledger_requests[r]
  IN /\ req.pc = "start" /\ req.kind = "payment"
     /\ payments' = [payments EXCEPT ![NewPaymentId(Db)] =
                       [patient |-> req.patient, bill |-> NoPk, amount |-> req.amount]]
     /\ ledger_requests' = [ledger_requests EXCEPT ![r].pc = "saved"]
     /\ UNCHANGED <<balance, bills, bill_items, bill_op, nops, initial_ledger,
                    stockVars, concVars, leadVars>>

\* Payment.save, after super().save(): delta = amount - 0 is taken off the balance
payment_balance(r) ==
  LET req == ledger_requests[r]
  IN /\ req.pc = "saved"
     /\ IF req.amount # 0 THEN update_balance(r, 0 - req.amount) ELSE UNCHANGED balance
     /\ ledger_requests' = [ledger_requests EXCEPT ![r].pc = "done"]
     /\ UNCHANGED <<payments, bills, bill_items, bill_op, nops, initial_ledger,
                    stockVars, concVars, leadVars>>

\* update_patient_balance_for_bill(bill, is_new=True)
bill_new_balance(r) ==
  LET req == ledger_requests[r]
  IN /\ req.pc = "start" /\ req.kind = "bill_new"
     /\ IF req.amount > 0 THEN update_balance(r, req.amount) ELSE UNCHANGED balance
     /\ ledger_requests' = [ledger_requests EXCEPT ![r].pc = "done"]
     /\ UNCHANGED <<payments, bills, bill_items, bill_op, nops, initial_ledger,
                    stockVars, concVars, leadVars>>

\* service_bill_edit: if total_delta != 0: ...update(balance=F('balance') + total_delta)
bill_edit_balance(r) ==
  LET req == ledger_requests[r]
  IN /\ req.pc = "start" /\ req.kind = "bill_edit"
     /\ IF req.amount # 0 THEN update_balance(r, req.amount) ELSE UNCHANGED balance
     /\ ledger_requests' = [ledger_requests EXCEPT ![r].pc = "done"]
     /\ UNCHANGED <<payments, bills, bill_items, bill_op, nops, initial_ledger,
                    stockVars, concVars, leadVars>>

InitBalanceConcurrent ==
  /\ balance \in [Patients -> {0, 1}]
  /\ bills = [b \in BillIds |-> NoBill]
  /\ bill_items = [i \in ItemIds |-> NoItem]
  /\ payments = [k \in PaymentIds |-> NoPayment]
  /\ bill_op = BillOp("none", NoPk, 0, FALSE)
  /\ nops = 0
  /\ initial_ledger = [balance |-> balance, bills |-> bills]
  /\ ledger_requests \in [Reqs -> BalanceRequests]
  /\ StockIdle /\ ConcIdle /\ LeadIdle

NextBalanceConcurrent ==
  \/ \E r \in Reqs : payment_insert(r)
  \/ \E r \in Reqs : payment_balance(r)
  \/ \E r \in Reqs : bill_new_balance(r)
  \/ \E r \in Reqs : bill_edit_balance(r)

SpecBalanceConcurrent == InitBalanceConcurrent /\ [][NextBalanceConcurrent]_vars

\* what a request adds to its patient's balance
BalanceDelta(req) ==
  IF req.kind = "payment" THEN 0 - req.amount ELSE req.amount

RECURSIVE SumBalanceDeltas(_, _)
SumBalanceDeltas(S, p) ==
  IF S = {} THEN 0
  ELSE LET r == CHOOSE x \in S : TRUE
       IN (IF ledger_requests[r].patient = p THEN BalanceDelta(ledger_requests[r]) ELSE 0)
            + SumBalanceDeltas(S \ {r}, p)

\* C13: once the concurrent requests are all done, in whatever order their
\* statements ran, each patient's balance is the initial balance plus the
\* bill-total deltas minus the payment amounts of the requests for that patient.
C13_BalanceDeltasCompose ==
  (\A r \in Reqs : ledger_requests[r].pc = "done") =>
    \A p \in Patients :
      balance[p] = initial_ledger.balance[p] + SumBalanceDeltas(Reqs, p)

\* all done, with at least two requests that moved the same patient's balance
C13_Witness ==
  /\ \A r \in Reqs : ledger_requests[r].pc = "done"
  /\ \E r1, r2 \in Reqs :
       /\ r1 # r2
       /\ ledger_requests[r1].patient = ledger_requests[r2].patient
       /\ ledger_requests[r1].kind = "payment"
       /\ ledger_requests[r2].kind # "payment"
       /\ ledger_requests[r2].amount > 0

----------------------------------------------------------------------------
(* SpecItemsConcurrent: requests that save or delete different BillItems of *)
(* one bill at the same time, each holding the Bill instance it loaded      *)
(* before any of them wrote.  Request r works on item r: a "save" request   *)
(* creates it, a "delete" request deletes the persisted one.                *)

TheBill == 1

ItemRequest(kind, total_price) ==
  [pc |-> "start", kind |-> kind, total_price |-> total_price, loaded_total |-> 0]

ItemRequests == {ItemRequest(kind, tp) : kind \in {"save", "delete"}, tp \in {1, 2}}

\* the items persisted before the requests start: those to be deleted
InitialItems(reqs) ==
  [i \in ItemIds |->
     IF i \in Reqs /\ reqs[i].kind = "delete"
       THEN [bill |-> TheBill, unit_price |-> reqs[i].total_price, quantity |-> 1,
             total_price |-> reqs[i].total_price]
       ELSE NoItem]

\* what a request adds to the bill's total
ItemDelta(req) == IF req.kind = "save" THEN req.total_price ELSE 0 - req.total_price

\* BillItem.save / BillItem.delete:
\* self.bill.total_amount = self.bill.total_amount +/- delta;
\* self.bill.save(update_fields=['total_amount', 'updated_at'])
item_bill_save(r) ==
  LET req == ledger_requests[r]
  IN /\ req.pc = "start"
     /\ bills' = [bills EXCEPT ![TheBill].total_amount = req.loaded_total + ItemDelta(req)]
     /\ ledger_requests' = [ledger_requests EXCEPT ![r].pc = "bill_saved"]
     /\ UNCHANGED <<balance, bill_items, payments, bill_op, nops, initial_ledger,
                    stockVars, concVars, leadVars>>

\* BillItem.save: super().save() inserts the item
item_insert(r) ==
  LET req == ledger_requests[r]
  IN /\ req.pc = "bill_saved" /\ req.kind = "save"
     /\ bill_items' = [bill_items EXCEPT ![r] =
                         [bill |-> TheBill, unit_price |-> req.total_price, quantity |-> 1,
                          total_price |-> req.total_price]]
     /\ ledger_requests' = [ledger_requests EXCEPT ![r].pc = "done"]
     /\ UNCHANGED <<balance, bills, payments, bill_op, nops, initial_ledger,
                    stockVars, concVars, leadVars>>

\* BillItem.delete: super().delete() removes the item and post_delete runs
\* billitem_deleted -> instance.bill.recalculate(save=True)
item_remove(r) ==
  LET req == ledger_requests[r]
      db2 == [Db EXCEPT !.bill_items[r] = NoItem]
      r3 == Bill_recalculate(db2, TheBill, db2.bills[TheBill])
  IN /\ req.pc = "bill_saved" /\ req.kind = "delete"
     /\ bill_items' = r3.db.bill_items
     /\ bills' = r3.db.bills
     /\ ledger_requests' = [ledger_requests EXCEPT ![r].pc = "done"]
     /\ UNCHANGED <<balance, payments, bill_op, nops, initial_ledger,
                    stockVars, concVars, leadVars>>

InitItemsConcurrent ==
  /\ \E reqs \in [Reqs -> ItemRequests] :
       LET items == InitialItems(reqs)
           total == SumTotalPrice(items, {i \in ItemIds : items[i] # NoItem})
       IN /\ bill_items = items
          /\ bills = [b \in BillIds |->
                        IF b = TheBill
                          THEN [patient |-> "p1", tax_amount |-> 0, discount_amount |-> 0,
                                total_amount |-> total, paid_amount |-> 0]
                          ELSE NoBill]
          /\ ledger_requests = [r \in Reqs |-> [reqs[r] EXCEPT !.loaded_total = total]]
  /\ balance = [p \in Patients |-> IF p = "p1" THEN bills[TheBill].total_amount ELSE 0]
  /\ payments = [k \in PaymentIds |-> NoPayment]
  /\ bill_op = BillOp("none", NoPk, 0, FALSE)
  /\ nops = 0
  /\ initial_ledger = [balance |-> balance, bills |-> bills]
  /\ StockIdle /\ ConcIdle /\ LeadIdle

NextItemsConcurrent ==
  \/ \E r \in Reqs : item_bill_save(r)
  \/ \E r \in Reqs : item_insert(r)
  \/ \E r \in Reqs : item_remove(r)

SpecItemsConcurrent == InitItemsConcurrent /\ [][NextItemsConcurrent]_vars

RECURSIVE SumItemDeltas(_)
SumItemDeltas(S) ==
  IF S = {} THEN 0
  ELSE LET r == CHOOSE x \in S : TRUE
       IN ItemDelta(ledger_requests[r]) + SumItemDeltas(S \ {r})

\* C14: once the concurrent item requests are all done, the bill's persisted
\* total_amount is the initial total plus the delta of every request.
C14_ItemDeltasCompose ==
  (\A r \in Reqs : ledger_requests[r].pc = "done") =>
    bills[TheBill].total_amount =
      initial_ledger.bills[TheBill].total_amount + SumItemDeltas(Reqs)

----------------------------------------------------------------------------
(* Billing ledger: item writes *)

\* C15: after Bill.recalculate(save=True), as the post_delete handler of a
\* BillItem invokes it, the persisted total_amount is the sum of the bill's
\* item totals plus tax_amount minus discount_amount.
C15_RecalculateIncludesTaxDiscount ==
  [][Step("item_delete") =>
       LET b == bill_items[bill_op'.id].bill
       IN bills'[b].total_amount =
            ItemsSubtotal([bill_items |-> bill_items'], b)
              + bills'[b].tax_amount - bills'[b].discount_amount]_vars

\* C16: a BillItem save leaves the item's total_price = unit_price x quantity
\* and changes the bill's persisted total_amount by the new total_price minus
\* the item's previously persisted total_price (0 for a new item).
C16_ItemSaveDelta ==
  [][(Step("item_create") \/ Step("item_update")) =>
       LET i == bill_op'.id
           b == bill_items'[i].bill
           old == IF bill_items[i] = NoItem THEN 0 ELSE bill_items[i].total_price
       IN /\ bill_items'[i].total_price = bill_items'[i].unit_price * bill_items'[i].quantity
          /\ bills'[b].total_amount - bills[b].total_amount
               = bill_items'[i].total_price - old]_vars

\* an existing item was saved with another price: the total moved by the
\* difference, not by the whole new total_price
C16_Witness ==
  /\ bill_op.op = "item_update"
  /\ bills[bill_items[bill_op.id].bill].total_amount # bill_op.pre
  /\ bills[bill_items[bill_op.id].bill].total_amount
       # bill_op.pre + bill_items[bill_op.id].total_price

\* C17: deleting a BillItem changes the bill's persisted total_amount by
\* exactly minus the item's total_price, whatever the bill's tax and discount.
C17_ItemDeleteDelta ==
  [][Step("item_delete") =>
       LET i == bill_op'.id
           b == bill_items[i].bill
       IN bills'[b].total_amount = bills[b].total_amount - bill_items[i].total_price]_vars

\* C18: a BillItem save or delete (with the recalculate it triggers) and
\* finalize_bill_totals leave every patient's balance as it was.
C18_ItemPipelineKeepsBalance ==
  [][(Step("item_create") \/ Step("item_update") \/ Step("item_delete") \/ Step("finalize"))
       => balance' = balance]_vars

\* an item was added to the bill of a patient: the total moved
C18_Witness ==
  /\ bill_op.op = "item_create"
  /\ bills[bill_items[bill_op.id].bill].total_amount # bill_op.pre
  /\ bills[bill_items[bill_op.id].bill].patient # None

SumAmountOf(pays, S, p) == SumAmount(pays, {k \in S : pays[k].patient = p})

\* C20: after a bill edit with submitted paid amount A the bill has exactly
\* one payment, of amount A, when A > 0 and none when A = 0, and paid_amount
\* = A is the sum of the bill's payments; every payment the bill had before
\* is given back to its patient's balance by the edit.
C20_EditReplacesPayments ==
  /\ [](bill_op.op = "bill_edit" =>
          LET b == bill_op.id
              A == bill_op.pre
              S == BillPayments(Db, b)
          IN /\ bills[b].paid_amount = A
             /\ SumAmount(payments, S) = A
             /\ A > 0 => Cardinality(S) = 1
             /\ A = 0 => S = {})
  /\ [][Step("bill_edit") =>
         LET b == bill_op'.id
             A == bill_op'.pre
             old == BillPayments(Db, b)
             total_delta == bills'[b].total_amount - bills[b].total_amount
         IN \A p \in Patients :
              balance'[p] = balance[p] + SumAmountOf(payments, old, p)
                              + (IF p = bills'[b].patient THEN total_delta - A ELSE 0)]_vars

\* an edit with a paid amount replaced the payments the bill had
C20_Witness ==
  /\ bill_op.op = "bill_edit"
  /\ bill_op.follows
  /\ bill_op.pre > 0

----------------------------------------------------------------------------
(* SpecPaymentConcurrent: requests of the Payment admin on one payment at   *)
(* the same time.  Each has loaded the payment before any of them wrote: a  *)
(* "change" request saves it with another amount, a "delete" request calls  *)
(* Payment.delete on the instance it holds.                                 *)

ThePayment == 1

PaymentRequest(kind, amount) ==
  [pc |-> "start", kind |-> kind, amount |-> amount, loaded |-> NoPayment]

PaymentRequests ==
  {PaymentRequest("delete", 0)} \cup {PaymentRequest("change", a) : a \in PaymentAmounts}

\* PaymentAdmin change: Payment.save with the submitted amount
payment_change(r) ==
  LET req == ledger_requests[r]
      db2 == Payment_save(Db, ThePayment, req.loaded.patient, req.loaded.bill, req.amount)
  IN /\ req.pc = "start" /\ req.kind = "change"
     /\ payments' = db2.payments
     /\ balance' = db2.balance
     /\ ledger_requests' = [ledger_requests EXCEPT ![r].pc = "done"]
     /\ UNCHANGED <<bills, bill_items, bill_op, nops, initial_ledger,
                    stockVars, concVars, leadVars>>

\* PaymentAdmin delete: Payment.delete on the loaded instance
payment_remove(r) ==
  LET req == ledger_requests[r]
      db2 == Payment_delete(Db, ThePayment, req.loaded)
  IN /\ req.pc = "start" /\ req.kind = "delete"
     /\ payments' = db2.payments
     /\ balance' = db2.balance
     /\ ledger_requests' = [ledger_requests EXCEPT ![r].pc = "done"]
     /\ UNCHANGED <<bills, bill_items, bill_op, nops, initial_ledger,
                    stockVars, concVars, leadVars>>

\* the payment was created for a patient of balance 0 (Payment.save took its
\* amount off the balance); then the requests loaded it
InitPaymentConcurrent ==
  /\ \E p \in Patients, a \in NewPaymentAmounts :
       /\ payments = [k \in PaymentIds |->
                        IF k = ThePayment THEN [patient |-> p, bill |-> NoPk, amount |-> a]
                                          ELSE NoPayment]
       /\ balance = [q \in Patients |-> IF q = p THEN 0 - a ELSE 0]
  /\ \E reqs \in [Reqs -> PaymentRequests] :
       ledger_requests = [r \in Reqs |-> [reqs[r] EXCEPT !.loaded = payments[ThePayment]]]
  /\ bills = [b \in BillIds |-> NoBill]
  /\ bill_items = [i \in ItemIds |-> NoItem]
  /\ bill_op = BillOp("none", NoPk, 0, FALSE)
  /\ nops = 0
  /\ initial_ledger = [balance |-> balance, bills |-> bills]
  /\ StockIdle /\ ConcIdle /\ LeadIdle

NextPaymentConcurrent ==
  \/ \E r \in Reqs : payment_change(r)
  \/ \E r \in Reqs : payment_remove(r)

SpecPaymentConcurrent == InitPaymentConcurrent /\ [][NextPaymentConcurrent]_vars

\* C19: Payment.delete gives the patient's balance the amount that is in the
\* payment's row when it is deleted, whatever amount the instance holds.
C19_DeleteReversesPersistedAmount ==
  [][\A r \in Reqs :
       (ledger_requests[r].kind = "delete" /\ ledger_requests[r].pc = "start"
          /\ ledger_requests'[r].pc = "done" /\ payments[ThePayment] # NoPayment)
       => LET p == payments[ThePayment].patient
          IN balance'[p] = balance[p] + payments[ThePayment].amount]_vars

----------------------------------------------------------------------------
(* SpecItemValidation: item writes with any form input, valid or not.  A    *)
(* row is what one item form posts: a service (or none), a quantity, a unit *)
(* price.                                                                   *)

Services == {"s1"}
default_price == 1     \* Service.default_price of s1

RawItemRows ==
  [service : Services \cup {None}, quantity : {0, 2}, unit_price : {0, 1}]

\* BillItem.clean for kind = 'service': the errors it raises
BillItem_clean_raises(row) ==
  \/ row.service = None
  \/ row.quantity <= 0

\* the unit price BillItem.clean / the form's clean leave on the item
CleanedUnitPrice(row) ==
  IF row.service # None /\ row.unit_price = 0 THEN default_price ELSE row.unit_price

\* ServiceBillItemForm.clean: is_empty
is_empty(row) == row.service = None /\ row.quantity = 0 /\ row.unit_price = 0

\* ServiceBillItemForm.clean: the errors it adds
ServiceBillItemForm_clean_errors(row) ==
  /\ ~is_empty(row)
  /\ (row.service = None \/ row.quantity <= 0)

\* the form's errors after full_clean: those of the form's clean and those
\* of the instance's clean
form_errors(row) == ServiceBillItemForm_clean_errors(row) \/ BillItem_clean_raises(row)

\* BaseSkipEmptyRowInlineFormSet.clean: is_empty_row, whose errors it erases
is_empty_row(row) == row.service = None /\ row.quantity = 0 /\ row.unit_price = 0

\* formset.is_valid()
formset_is_valid(row) == is_empty_row(row) \/ ~form_errors(row)

\* service_bill_edit where the form of existing item i posts row and the
\* header is posted as stored
service_bill_edit_row(i, row) ==
  LET b == bill_items[i].bill
  IN /\ i \in ExistingItems(Db)
     /\ IF formset_is_valid(row)
          THEN service_bill_edit(b, bills[b].patient,
                                 ChangeForm(i, [unit_price |-> CleanedUnitPrice(row),
                                                quantity |-> row.quantity]),
                                 <<>>, bills[b].tax_amount, bills[b].discount_amount,
                                 bills[b].paid_amount)
          ELSE Commit(Db, BillOp("rejected", i, 0, FALSE))

\* BillItemAdmin change of item i: the ModelForm runs BillItem.clean, then
\* BillItem.save
admin_item_change(i, row) ==
  /\ i \in ExistingItems(Db)
  /\ IF BillItem_clean_raises(row)
       THEN Commit(Db, BillOp("rejected", i, 0, FALSE))
       ELSE Commit(BillItem_save(Db, i, bill_items[i].bill, CleanedUnitPrice(row),
                                 row.quantity, bills[bill_items[i].bill]).db,
                   BillOp("item_update", i, bills[bill_items[i].bill].total_amount, FALSE))

\* @transaction.atomic: what a request leaves behind, given the tables when
\* it began, the tables as it wrote them, and whether it ended with
\* set_rollback(True) or an exception
atomic_without_rollback(before, written, rollback) == written

atomic(before, written, rollback) == IF rollback THEN before ELSE written

NewRowSeqs == UNION {[1..n -> RawItemRows] : n \in 1..MaxItems}

\* the forms the item loop of service_bill_create saves: those that are not
\* marked _empty_row_skip, with the unit price validation left on them
RECURSIVE NonEmptyRows(_)
NonEmptyRows(rows) ==
  IF rows = <<>> THEN <<>>
  ELSE IF is_empty_row(Head(rows)) THEN NonEmptyRows(Tail(rows))
  ELSE <<[unit_price |-> CleanedUnitPrice(Head(rows)), quantity |-> Head(rows).quantity]>>
       \o NonEmptyRows(Tail(rows))

Raises == {"none", "item", "payment"}

\* service_bill_create with a valid header and any item formset; raises says
\* where the database raises an exception, if anywhere (pharmacy_bill_create
\* runs the same statements on a pharmacy formset)
service_bill_create_request(patient, rows, tax, discount, paid, raises) ==
  LET b == NewBillId(Db)
      bill0 == [patient |-> patient, tax_amount |-> tax, discount_amount |-> discount,
                total_amount |-> 0, paid_amount |-> paid]
      db1 == Bill_save(Db, b, bill0)
      items == NonEmptyRows(rows)
      r2 == SaveNewItems(db1, b, bill0, items)
      r3 == finalize_bill_totals(r2.db, b, r2.bill)
      db4 == update_patient_balance_for_bill(r3.db, r3.bill)
      bill5 == [r3.bill EXCEPT !.paid_amount = paid]
      db5 == Bill_save_paid_amount(db4, b, bill5)
      db6 == IF paid > 0 THEN Payment_save(db5, NewPaymentId(db5), patient, b, paid)
                         ELSE db5
      failed(written) == Commit(atomic(Db, written, TRUE),
                                BillOp("bill_create_failed", b, 0, written # Db))
  IN /\ ExistingBills(Db) # BillIds
     /\ Cardinality(ItemIds \ ExistingItems(Db)) >= Len(rows)
     /\ paid > 0 => ExistingPayments(Db) # PaymentIds
     /\ IF \E k \in 1..Len(rows) : ~formset_is_valid(rows[k]) THEN failed(db1)
        ELSE IF items = <<>> THEN failed(db1)
        ELSE IF raises = "item" THEN failed(SaveNewItems(db1, b, bill0, <<Head(items)>>).db)
        ELSE IF raises = "payment" /\ paid > 0 THEN failed(db5)
        ELSE Commit(atomic(Db, db6, FALSE), BillOp("bill_create", b, 0, FALSE))

InitItemValidation == InitBilling

NextItemValidation ==
  /\ nops < MaxOps
  /\ \/ \E p \in Patients, rows \in NewRowSeqs, tax \in TaxAmounts, paid \in PaidAmounts,
           raises \in Raises :
          service_bill_create_request(p, rows, tax, 0, paid, raises)
     \/ \E i \in ItemIds, row \in RawItemRows : service_bill_edit_row(i, row)
     \/ \E i \in ItemIds, row \in RawItemRows : admin_item_change(i, row)

SpecItemValidation == InitItemValidation /\ [][NextItemValidation]_vars

\* what C21 calls an invalid item: a quantity that is not positive
InvalidItem(item) == item.quantity <= 0

\* C21: a write of a BillItem that is not valid is rejected and leaves the
\* items, the bill totals and the balances as they were: no write puts an
\* invalid item into the table.
C21_InvalidItemWriteRejected ==
  [][\A i \in ItemIds :
       (bill_items'[i] # NoItem /\ bill_items'[i] # bill_items[i] /\ InvalidItem(bill_items'[i]))
       => UNCHANGED <<bill_items, bills, balance>>]_vars

\* C22: a bill creation that fails after the header was saved (formset not
\* valid, no non-empty item row, an exception while saving items or the
\* payment) leaves no Bill, BillItem or Payment row and no balance change.
C22_FailedCreateLeavesNothing ==
  [][bill_op'.op = "bill_create_failed"
       => UNCHANGED <<bills, bill_items, payments, balance>>]_vars

\* a failed creation that had written rows before it failed
C22_Witness == bill_op.op = "bill_create_failed" /\ bill_op.follows

----------------------------------------------------------------------------
(* SpecStockEdit: the stock requests, remembering for an edit the row as it *)
(* was stored, the row as it is stored now, and every medicine's            *)
(* current_quantity before the request.                                     *)

\* an edit request ran on row tx with these inputs
EditedRow(tx, m, t, q) ==
  stock_hist' = [op |-> IF stock_op'.outcome = "ok" THEN "edit" ELSE "edit_rejected",
                 row |-> tx, new |-> TxRow(m, t, normalize_quantity_sign(t, q)),
                 input |-> q, pre |-> current_quantity, follows |-> FALSE]

NextStockEdit ==
  \/ \E m \in Medicines, t \in FormTypeInputs : \E q \in QuantityInputs(t) :
       stock_tx_create(m, t, q) /\ Created(m, t, q)
  \/ \E tx \in BagToSet(stock_transactions), m \in Medicines, t \in FormTypeInputs :
       \E q \in QuantityInputs(t) : pharmacy_tx_edit(tx, m, t, q) /\ EditedRow(tx, m, t, q)
  \/ \E m \in Medicines, target \in 0 .. MaxQty :
       pharmacy_stock_adjust(m, target) /\ Created(m, "adjustment", target - current_quantity[m])
  \/ \E m \in Medicines, t \in AdminTypeInputs : \E q \in QuantityInputs(t) :
       admin_tx_add(m, t, q) /\ Created(m, t, q)
  \/ \E tx \in BagToSet(stock_transactions), m \in Medicines, t \in AdminTypeInputs :
       \E q \in QuantityInputs(t) : admin_tx_change(tx, m, t, q) /\ EditedRow(tx, m, t, q)
  \/ \E tx \in BagToSet(stock_transactions) : admin_tx_delete(tx) /\ Deleted(tx)

SpecStockEdit == InitStock /\ [][NextStockEdit]_vars

\* C23: after a successful update of a row with stored quantity o to the
\* normalized quantity n, an unchanged medicine's current_quantity has
\* changed by n - o; when the medicine changed from A to B, A's has changed
\* by -o and B's by +n; no other medicine's stock has changed.
C23_UpdateTransitions ==
  stock_hist.op = "edit" =>
    LET o == stock_hist.row.quantity
        n == stock_hist.new.quantity
        A == stock_hist.row.medicine
        B == stock_hist.new.medicine
    IN \A m \in Medicines :
         current_quantity[m] - stock_hist.pre[m] =
           IF A = B THEN (IF m = B THEN n - o ELSE 0)
           ELSE IF m = A THEN 0 - o
           ELSE IF m = B THEN n
           ELSE 0

\* a successful update that moved a row with a non-zero quantity to another
\* medicine
C23_Witness ==
  /\ stock_hist.op = "edit"
  /\ stock_hist.row.medicine # stock_hist.new.medicine
  /\ stock_hist.row.quantity # 0
  /\ stock_hist.new.quantity # 0

\* a successful update that flipped the sign of the stored quantity
C23_SignFlipWitness ==
  /\ stock_hist.op = "edit"
  /\ stock_hist.row.quantity > 0
  /\ stock_hist.new.quantity < 0

\* the sign the type of a row demands of its quantity
SignFitsType(row) ==
  /\ row.transaction_type \in IN_TYPES => row.quantity >= 0
  /\ row.transaction_type \in OUT_TYPES => row.quantity <= 0

\* C24: every persisted row of an inbound type has quantity >= 0 and every
\* row of an outbound type quantity <= 0; normalization keeps the magnitude,
\* leaves an adjustment as entered and is idempotent; the row an update
\* stores and the delta a create applies are the normalized quantity.
C24_SignNormalized ==
  /\ \A row \in BagToSet(stock_transactions) : SignFitsType(row)
  /\ \A t \in TRANSACTION_TYPE_CHOICES, q \in Quantities :
       LET n == normalize_quantity_sign(t, q)
       IN /\ Abs(n) = Abs(q)
          /\ normalize_quantity_sign(t, n) = n
          /\ t = "adjustment" => n = q
  /\ stock_hist.op = "create" =>
       /\ BagIn(stock_hist.row, stock_transactions)
       /\ current_quantity[stock_hist.row.medicine] = stock_hist.pre + stock_hist.row.quantity
  /\ stock_hist.op = "edit" =>
       /\ BagIn(stock_hist.new, stock_transactions)
       /\ Abs(stock_hist.new.quantity) = Abs(stock_hist.input)
       /\ SignFitsType(stock_hist.new)

\* an update entered with a positive quantity for an outbound type, stored
\* with the sign flipped
C24_Witness ==
  /\ stock_hist.op = "edit"
  /\ stock_hist.input > 0
  /\ stock_hist.new.transaction_type \in OUT_TYPES
  /\ stock_hist.new.quantity = 0 - stock_hist.input

----------------------------------------------------------------------------
(* SpecProfileConcurrent: patient_update requests next to requests that     *)
(* save a new payment.  A "patient_update" request is at "start" before     *)
(* get_object_or_404, "loaded" while it holds the Patient instance and      *)
(* "done" after form.save().                                                *)

ProfileRequests ==
  {BalanceRequest("payment", p, a) : p \in Patients, a \in NewPaymentAmounts}
    \cup {BalanceRequest("patient_update", p, 0) : p \in Patients}

\* patient_update: patient = get_object_or_404(Patient, pk=pk)
patient_update_load(r) ==
  LET req == ledger_requests[r]
  IN /\ req.pc = "start" /\ req.kind = "patient_update"
     /\ ledger_requests' = [ledger_requests EXCEPT ![r].pc = "loaded",
                                                   ![r].loaded_balance = balance[req.patient]]
     /\ UNCHANGED <<balance, payments, bills, bill_items, bill_op, nops, initial_ledger,
                    stockVars, concVars, leadVars>>

\* patient_update: form.save() -> Patient.save() -> Model.save() with no
\* update_fields: the UPDATE sets every column, balance among them, to the
\* value the instance holds
patient_update_save(r) ==
  LET req == ledger_requests[r]
  IN /\ req.pc = "loaded"
     /\ balance' = [balance EXCEPT ![req.patient] = req.loaded_balance]
     /\ ledger_requests' = [ledger_requests EXCEPT ![r].pc = "done"]
     /\ UNCHANGED <<payments, bills, bill_items, bill_op, nops, initial_ledger,
                    stockVars, concVars, leadVars>>

InitProfileConcurrent ==
  /\ balance \in [Patients -> {0, 1}]
  /\ bills = [b \in BillIds |-> NoBill]
  /\ bill_items = [i \in ItemIds |-> NoItem]
  /\ payments = [k \in PaymentIds |-> NoPayment]
  /\ bill_op = BillOp("none", NoPk, 0, FALSE)
  /\ nops = 0
  /\ initial_ledger = [balance |-> balance, bills |-> bills]
  /\ ledger_requests \in [Reqs -> ProfileRequests]
  /\ StockIdle /\ ConcIdle /\ LeadIdle

NextProfileConcurrent ==
  \/ \E r \in Reqs : payment_insert(r)
  \/ \E r \in Reqs : payment_balance(r)
  \/ \E r \in Reqs : patient_update_load(r)
  \/ \E r \in Reqs : patient_update_save(r)

SpecProfileConcurrent == InitProfileConcurrent /\ [][NextProfileConcurrent]_vars

\* C25: the save of a patient profile update leaves every balance as it
\* finds it, also when a payment for the patient was committed after the
\* update loaded the patient.
C25_ProfileUpdateKeepsBalance ==
  [][\A r \in Reqs :
       (ledger_requests[r].pc = "loaded" /\ ledger_requests'[r].pc = "done")
       => UNCHANGED balance]_vars

----------------------------------------------------------------------------
(* SpecPharmacySale: stock receipts and pharmacy bills                      *)

selling_price == 1     \* Medicine.selling_price of every medicine

SaleQuantities == 1 .. MaxQty

\* PharmacyBillItemForm.clean, stock check: the error "Only N in stock."
only_in_stock(m, q) == q > current_quantity[m]

\* pharmacy_bill_create with a valid header and one item row of quantity q
\* for medicine m, unit price left blank
pharmacy_bill_create(patient, m, q, paid) ==
  LET b == NewBillId(Db)
      bill0 == [patient |-> patient, tax_amount |-> 0, discount_amount |-> 0,
                total_amount |-> 0, paid_amount |-> paid]
      db1 == Bill_save(Db, b, bill0)
      r2 == SaveNewItems(db1, b, bill0, <<[unit_price |-> selling_price, quantity |-> q]>>)
      r3 == finalize_bill_totals(r2.db, b, r2.bill)
      db4 == update_patient_balance_for_bill(r3.db, r3.bill)
      bill5 == [r3.bill EXCEPT !.paid_amount = paid]
      db5 == Bill_save_paid_amount(db4, b, bill5)
      db6 == IF paid > 0 THEN Payment_save(db5, NewPaymentId(db5), patient, b, paid)
                         ELSE db5
      sold(op) == [op |-> op, id |-> b, pre |-> current_quantity[m], follows |-> FALSE,
                   medicine |-> m, quantity |-> q]
  IN /\ ExistingBills(Db) # BillIds
     /\ ExistingItems(Db) # ItemIds
     /\ paid > 0 => ExistingPayments(Db) # PaymentIds
     /\ IF only_in_stock(m, q)
          THEN Commit(atomic(Db, db1, TRUE), sold("pharmacy_bill_rejected"))
          ELSE Commit(atomic(Db, db6, FALSE), sold("pharmacy_bill_create"))

InitPharmacySale == InitBilling

NextPharmacySale ==
  \/ /\ UNCHANGED stock_hist
     /\ \E m \in Medicines, t \in FormTypeInputs : \E q \in QuantityInputs(t) :
          stock_tx_create(m, t, q)
  \/ /\ nops < MaxOps
     /\ \E p \in Patients, m \in Medicines, q \in SaleQuantities, paid \in PaidAmounts :
          pharmacy_bill_create(p, m, q, paid)

SpecPharmacySale == InitPharmacySale /\ [][NextPharmacySale]_vars

\* C26: after a successful pharmacy bill with an item of quantity q for
\* medicine M, M's current_quantity is q lower than before the bill.
C26_SaleConsumesStock ==
  bill_op.op = "pharmacy_bill_create" =>
    current_quantity[bill_op.medicine] = bill_op.pre - bill_op.quantity

\* balance = sum of bill totals - sum of payments, for one patient
Reconciled(p) ==
  balance[p] = SumTotalAmount(BillsOf(p)) - SumAmount(payments, PaymentsOf(p))

\* C27: a bill edit that changes the bill's patient from A to B, starting
\* with both balances reconciled, leaves both reconciled: A's without the
\* bill's old total, B's with its new total.
C27_ReassignKeepsReconciled ==
  [][\A b \in BillIds, A \in Patients, B \in Patients :
       (/\ Step("bill_edit") /\ bill_op'.id = b
        /\ bills[b].patient = A /\ bills'[b].patient = B /\ A # B
        /\ Reconciled(A) /\ Reconciled(B))
       => Reconciled(A)' /\ Reconciled(B)']_vars

----------------------------------------------------------------------------
(* SpecBillDelete: bills created by the view and deleted in the admin       *)

\* BillAdmin delete view: Bill has no delete() of its own and no handler
\* listens for its deletion.  The collector sets bill to null on the bill's
\* payments, deletes the bill's items (post_delete billitem_deleted
\* recalculates the bill that is about to go), then deletes the bill.
admin_bill_delete(b) ==
  LET db1 == [Db EXCEPT !.payments =
                [k \in PaymentIds |->
                   IF Db.payments[k] # NoPayment /\ Db.payments[k].bill = b
                     THEN [Db.payments[k] EXCEPT !.bill = NoPk]
                     ELSE Db.payments[k]]]
      db2 == [db1 EXCEPT !.bill_items =
                [i \in ItemIds |->
                   IF db1.bill_items[i] # NoItem /\ db1.bill_items[i].bill = b
                     THEN NoItem ELSE db1.bill_items[i]]]
      db3 == [db2 EXCEPT !.bills[b] = NoBill]
  IN /\ b \in ExistingBills(Db)
     /\ Commit(db3, BillOp("bill_delete", b, bills[b].total_amount, FALSE))

InitBillDelete == InitBilling

NextBillDelete ==
  /\ nops < MaxOps
  /\ \/ \E p \in Patients, rows \in RowSeqs, tax \in TaxAmounts, paid \in PaidAmounts :
          service_bill_create(p, rows, tax, 0, paid)
     \/ \E b \in BillIds : admin_bill_delete(b)

SpecBillDelete == InitBillDelete /\ [][NextBillDelete]_vars

\* C28: deleting a bill of a patient whose balance is reconciled lowers the
\* balance by the bill's total_amount and leaves it reconciled.
C28_BillDeleteLowersBalance ==
  [][\A b \in BillIds, p \in Patients :
       (Step("bill_delete") /\ bill_op'.id = b /\ bills[b].patient = p /\ Reconciled(p))
       => /\ balance'[p] = balance[p] - bills[b].total_amount
          /\ Reconciled(p)']_vars

----------------------------------------------------------------------------
(* SpecAdjustConcurrent: pharmacy_stock_adjust requests next to requests    *)
(* that run _apply_stock_delta for another stock transaction.  An adjust    *)
(* request is at "adjust_start" before it loads the MedicineStock row,      *)
(* "adjust_read" once it has computed delta from the row it loaded,         *)
(* "adjust_locked" while _apply_stock_delta holds the row, then "done".     *)

AdjustRequest(m, target) ==
  [pc |-> "adjust_start", medicine |-> m, target |-> target, old_qty |-> 0,
   delta |-> 0, current_quantity |-> 0, outcome |-> "none"]

OtherDeltas == {0 - 1, 1}

\* stock = get_object_or_404(MedicineStock, ...); old_qty = stock.current_quantity;
\* delta = new_qty - old_qty; nothing is written when delta == 0
adjust_read(r) ==
  LET req == requests[r]
      delta == req.target - current_quantity[req.medicine]
  IN /\ req.pc = "adjust_start"
     /\ requests' = [requests EXCEPT ![r].pc = IF delta = 0 THEN "done" ELSE "adjust_read",
                                     ![r].old_qty = current_quantity[req.medicine],
                                     ![r].delta = delta]
     /\ UNCHANGED <<current_quantity, row_lock, initial_quantity, stock_transactions,
                    stock_op, stock_hist, billVars, leadVars, ledgerConcVars>>

\* StockTransaction.objects.create(...) -> post_save -> _apply_stock_delta:
\* select_for_update() reads the row as committed now
adjust_lock(r) ==
  LET m == requests[r].medicine
  IN /\ requests[r].pc = "adjust_read"
     /\ RowLockFree(m)
     /\ row_lock' = [row_lock EXCEPT ![m] = {r}]
     /\ requests' = [requests EXCEPT ![r].pc = "adjust_locked",
                                     ![r].current_quantity = current_quantity[m]]
     /\ UNCHANGED <<current_quantity, initial_quantity, stock_transactions, stock_op,
                    stock_hist, billVars, leadVars, ledgerConcVars>>

\* new_qty = stock.current_quantity + delta; raise if negative, else save;
\* the view's transaction then commits the adjustment row and the stock
adjust_save(r) ==
  LET req == requests[r]
      m == req.medicine
      new_qty == req.current_quantity + req.delta
  IN /\ req.pc = "adjust_locked"
     /\ IF new_qty < 0
          THEN /\ requests' = [requests EXCEPT ![r].pc = "done", ![r].outcome = "rejected"]
               /\ UNCHANGED <<current_quantity, stock_transactions>>
          ELSE /\ requests' = [requests EXCEPT ![r].pc = "done", ![r].outcome = "ok"]
               /\ current_quantity' = [current_quantity EXCEPT ![m] = new_qty]
               /\ stock_transactions' =
                    InsertRow(stock_transactions, TxRow(m, "adjustment", req.delta))
     /\ row_lock' = [row_lock EXCEPT ![m] = {}]
     /\ UNCHANGED <<initial_quantity, stock_op, stock_hist, billVars, leadVars,
                    ledgerConcVars>>

InitAdjustConcurrent ==
  /\ initial_quantity \in [Medicines -> 0 .. MaxStock]
  /\ current_quantity = initial_quantity
  /\ requests \in [Reqs -> {AdjustRequest(m, t) : m \in Medicines, t \in 0 .. MaxQty}
                              \cup {Request(m, d) : m \in Medicines, d \in OtherDeltas}]
  /\ row_lock = [m \in Medicines |-> {}]
  /\ stock_transactions = NoRows
  /\ stock_op = StockOp("none")
  /\ stock_hist = NoHist
  /\ BillIdle
  /\ LeadIdle
  /\ LedgerConcIdle

NextAdjustConcurrent ==
  \/ \E r \in Reqs : adjust_read(r)
  \/ \E r \in Reqs : adjust_lock(r)
  \/ \E r \in Reqs : adjust_save(r)
  \/ \E r \in Reqs : select_for_update(r)
  \/ \E r \in Reqs : save_or_raise(r)

SpecAdjustConcurrent == InitAdjustConcurrent /\ [][NextAdjustConcurrent]_vars

\* C29: when a pharmacy_stock_adjust request with target T succeeds, the
\* medicine's current_quantity is T and one adjustment row of T minus the
\* quantity the request read has been created, also when another stock
\* transaction committed between the request's read and its write.
C29_AdjustReachesTarget ==
  [][\A r \in Reqs :
       (/\ requests[r].pc = "adjust_locked"
        /\ requests'[r].pc = "done"
        /\ requests'[r].outcome = "ok")
       => /\ current_quantity'[requests[r].medicine] = requests[r].target
          /\ stock_transactions' =
               InsertRow(stock_transactions,
                         TxRow(requests[r].medicine, "adjustment",
                               requests[r].target - requests[r].old_qty))]_vars

----------------------------------------------------------------------------
(* SpecLeadConcurrent: convert requests that run at the same time.  A       *)
(* request is at "lead_start" before it loads the lead, "lead_loaded" once  *)
(* it has found converted_patient unset, "patient_saved" once lead_convert  *)
(* has saved its patient, and "done" at the end.                            *)

LeadRequest(kind, l) == [pc |-> "lead_start", kind |-> kind, lead |-> l, patient |-> NoPk]

LeadRequestKinds == {"lead_convert", "convert_to_patient"}

leadConcOthers ==
  <<today, lead_op, stockVars, initial_quantity, row_lock, billVars, ledgerConcVars>>

\* lead = get_object_or_404(Lead, pk=pk) / the admin's queryset row, and the
\* test of converted_patient_id on that instance
lead_load(r) ==
  LET req == requests[r]
  IN /\ req.pc = "lead_start"
     /\ requests' = [requests EXCEPT ![r].pc =
                       IF AlreadyConverted(LeadInstance(req.lead)) THEN "done"
                                                                  ELSE "lead_loaded"]
     /\ UNCHANGED <<converted_patient, conversion_date, patient_rows, leadConcOthers>>

\* lead_convert: patient.save(), committed on its own
lead_convert_patient_save(r) ==
  LET req == requests[r]
  IN /\ req.pc = "lead_loaded" /\ req.kind = "lead_convert"
     /\ patient_rows' = patient_rows + 1
     /\ requests' = [requests EXCEPT ![r].pc = "patient_saved", ![r].patient = NewPatient]
     /\ UNCHANGED <<converted_patient, conversion_date, leadConcOthers>>

\* lead_convert: lead.save(update_fields=['converted_patient', 'conversion_date'])
lead_convert_lead_save(r) ==
  LET req == requests[r]
  IN /\ req.pc = "patient_saved"
     /\ converted_patient' = [converted_patient EXCEPT ![req.lead] = req.patient]
     /\ conversion_date' = [conversion_date EXCEPT ![req.lead] = today]
     /\ requests' = [requests EXCEPT ![r].pc = "done"]
     /\ UNCHANGED <<patient_rows, leadConcOthers>>

\* Lead.convert_to_patient: the atomic block creates the patient and saves
\* the lead, and commits both
convert_to_patient_atomic(r) ==
  LET req == requests[r]
  IN /\ req.pc = "lead_loaded" /\ req.kind = "convert_to_patient"
     /\ patient_rows' = patient_rows + 1
     /\ converted_patient' = [converted_patient EXCEPT ![req.lead] = NewPatient]
     /\ conversion_date' = [conversion_date EXCEPT ![req.lead] = today]
     /\ requests' = [requests EXCEPT ![r].pc = "done", ![r].patient = NewPatient]
     /\ UNCHANGED leadConcOthers

InitLeadConcurrent ==
  /\ LeadIdle
  /\ requests \in [Reqs -> {LeadRequest(k, l) : k \in LeadRequestKinds, l \in Leads}]
  /\ initial_quantity = [m \in Medicines |-> 0]
  /\ row_lock = [m \in Medicines |-> {}]
  /\ StockIdle /\ BillIdle /\ LedgerConcIdle

NextLeadConcurrent ==
  \/ \E r \in Reqs : lead_load(r)
  \/ \E r \in Reqs : lead_convert_patient_save(r)
  \/ \E r \in Reqs : lead_convert_lead_save(r)
  \/ \E r \in Reqs : convert_to_patient_atomic(r)

SpecLeadConcurrent == InitLeadConcurrent /\ [][NextLeadConcurrent]_vars

\* the patients created for lead l
PatientsOfLead(l) ==
  {requests[r].patient : r \in {x \in Reqs : requests[x].lead = l}} \ {NoPk}

\* C30: in every interleaving of concurrent convert requests at most one
\* patient is created for a lead, and once the requests are done the lead's
\* converted_patient is that patient.
C30_OnePatientPerLead ==
  \A l \in Leads :
    /\ Cardinality(PatientsOfLead(l)) <= 1
    /\ (\A r \in Reqs : requests[r].pc = "done") /\ PatientsOfLead(l) # {}
         => PatientsOfLead(l) = {converted_patient[l]}

====
